---- MODULE Spec2Model ----
(***************************************************************************)
(* Model of the stem-separation client: the multi-track mix engine         *)
(* (src/hooks/useAudioPlayer.ts) and the two separation orchestrators      *)
(* (src/hooks/useStemSeparation.ts, synchronous invoke; the polling        *)
(* variant kept in src/unnamed/part_004).                                  *)
(*                                                                         *)
(* Conventions.  A React state setter followed by the re-render and the    *)
(* effects the re-render triggers is one atomic step (the event loop runs  *)
(* them without interleaving other callbacks).  Gains are kept in          *)
(* hundredths (audio.volume = 0.8 is 80).  Time is counted in clock ticks. *)
(***************************************************************************)
EXTENDS Integers, Sequences, FiniteSets, TLC

\* ------------------------------------------------------------------ bounds
\* Longest media duration / largest seek target, in ticks.
MaxTime == 3
\* Number of volume steps between 0 and 100 a slider is moved through.
VolumeLevels == 2

\* --------------------------------------------------------------- mix engine
\* The stem sets a mix is built from (useStemSeparation.ts AVAILABLE_MODELS).
FourStems == <<"vocals", "drums", "bass", "other">>
TwoStems == <<"vocals", "instrumental">>

\* Initial volume of every track, in percent.
DefaultVolume == 80

\* Slider positions used as setVolume arguments (0 and 100 always included).
Volumes == {(100 * i) \div VolumeLevels : i \in 0..VolumeLevels} \cup {DefaultVolume}

\* Nominal duration of the simulated transport; the tick is scaled so that
\* the 180 s demo spans MaxTime ticks.
DemoDuration == MaxTime

Times == 0..MaxTime

Min(a, b) == IF a < b THEN a ELSE b

RangeOf(s) == {s[i] : i \in 1..Len(s)}

VARIABLES
  stemIds,        \* hook input: sequence of stem ids
  audioMode,      \* "demo" when audioUrls is empty, "real" otherwise
  volumes,        \* React state: id -> 0..100
  mutedStems,     \* React state: id -> BOOLEAN
  soloStems,      \* React state: id -> BOOLEAN
  trackVolume,    \* track.audio.volume of every track, in hundredths
  trackTime,      \* track.audio.currentTime of every track
  trackPaused,    \* track.audio.paused of every track
  trackLoaded,    \* the track's metadata has been loaded
  trackDuration,  \* track.audio.duration once loaded (0: no media)
  isPlaying,      \* React state
  currentTime,    \* React state: shared clock
  duration,       \* React state: shared duration
  isLoaded,       \* React state
  rafPending,     \* an animation frame for updateTime is requested
  lastSeek,       \* history: the argument of seek when it was the last call, else -1
  mounted,        \* the component using the hook is mounted
  closureDuration \* the duration seen by the listeners of the current tracks

gainVars == <<volumes, mutedStems, soloStems, trackVolume>>
transportVars == <<trackTime, trackPaused, trackLoaded, trackDuration, isPlaying,
                   currentTime, duration, isLoaded, rafPending, lastSeek>>
lifeVars == <<mounted, closureDuration>>
mixVars == <<stemIds, audioMode, lifeVars, gainVars, transportVars>>

TrackIds == RangeOf(stemIds)

\* The reference track: the first value of the tracks Map.
FirstTrack == stemIds[1]

\* hasSolo of updateTrackVolumes.
HasSolo(solo) == \E id \in DOMAIN solo : solo[id]

\* A mutation of the rule: solo is ignored, only mute silences a track.
EffectiveVolumeNoSolo(id, vols, muted, solo) ==
  IF muted[id] THEN 0 ELSE vols[id]

\* The gain updateTrackVolumes assigns to one track (hundredths).
EffectiveVolume(id, vols, muted, solo) ==
  IF HasSolo(solo)
    THEN (IF solo[id] THEN vols[id] ELSE 0)
    ELSE (IF muted[id] THEN 0 ELSE vols[id])

\* updateTrackVolumes: the rule applied to every track of the Map.
UpdateTrackVolumes(vols, muted, solo) ==
  [id \in TrackIds |-> EffectiveVolume(id, vols, muted, solo)]

\* HTMLMediaElement: assigning currentTime.  Before the metadata is known
\* the value is kept as the default start position and read back as is;
\* afterwards the seek is clamped to the end of the media.
SetMediaTime(id, t) ==
  IF trackLoaded[id] THEN Min(t, trackDuration[id]) ELSE t

\* The track's source can be fetched and decoded; a track of a real-media
\* mix without media is one whose source is missing or fails to load.
HasMedia(id) == trackDuration[id] > 0

\* HTMLMediaElement: the element has ended playback.
MediaAtEnd(id) == trackLoaded[id] /\ trackTime[id] = trackDuration[id]

InitMix(ids, durations) ==
  /\ stemIds = ids
  /\ audioMode \in {"demo", "real"}
  /\ volumes = [id \in RangeOf(ids) |-> DefaultVolume]
  /\ mutedStems = [id \in RangeOf(ids) |-> FALSE]
  /\ soloStems = [id \in RangeOf(ids) |-> FALSE]
  /\ trackVolume = [id \in RangeOf(ids) |-> DefaultVolume]
  /\ trackTime = [id \in RangeOf(ids) |-> 0]
  /\ trackPaused = [id \in RangeOf(ids) |-> TRUE]
  /\ trackLoaded = [id \in RangeOf(ids) |-> FALSE]
  /\ IF audioMode = "real"
       THEN trackDuration \in [RangeOf(ids) -> durations]
       ELSE trackDuration = [id \in RangeOf(ids) |-> 0]
  /\ isPlaying = FALSE
  /\ currentTime = 0
  /\ duration = (IF audioMode = "demo" THEN DemoDuration ELSE 0)
  /\ isLoaded = (audioMode = "demo")
  /\ rafPending = FALSE
  /\ lastSeek = -1
  /\ mounted = TRUE
  /\ closureDuration = 0

\* ---- gain controls
\* A mutation of setVolume: the slider acts as a master volume.
setVolumeAll(id, v) ==
  /\ volumes' = [t \in TrackIds |-> v]
  /\ trackVolume' = UpdateTrackVolumes(volumes', mutedStems, soloStems)
  /\ UNCHANGED <<mutedStems, soloStems>>

setVolume(id, v) ==
  /\ volumes' = [volumes EXCEPT ![id] = v]
  /\ trackVolume' = UpdateTrackVolumes(volumes', mutedStems, soloStems)
  /\ UNCHANGED <<mutedStems, soloStems>>

toggleMute(id) ==
  /\ mutedStems' = [mutedStems EXCEPT ![id] = ~mutedStems[id]]
  /\ trackVolume' = UpdateTrackVolumes(volumes, mutedStems', soloStems)
  /\ UNCHANGED <<volumes, soloStems>>

\* A mutation of toggleSolo: the state changes, the rule is not re-applied.
toggleSoloNoRefresh(id) ==
  /\ soloStems' = [soloStems EXCEPT ![id] = ~soloStems[id]]
  /\ UNCHANGED <<volumes, mutedStems, trackVolume>>

toggleSolo(id) ==
  /\ soloStems' = [soloStems EXCEPT ![id] = ~soloStems[id]]
  /\ trackVolume' = UpdateTrackVolumes(volumes, mutedStems, soloStems')
  /\ UNCHANGED <<volumes, mutedStems>>

\* ---- transport
\* HTMLMediaElement.play(): un-pauses, restarting from 0 when at the end.
\* On an element without media the call either leaves it paused (the load
\* has already failed, the promise is rejected) or un-pauses it to wait for
\* data that never comes.
play ==
  /\ trackVolume' = UpdateTrackVolumes(volumes, mutedStems, soloStems)
  /\ IF audioMode = "real"
       THEN /\ trackPaused' \in {p \in [TrackIds -> BOOLEAN] :
                                  \A id \in TrackIds :
                                    /\ HasMedia(id) => ~p[id]
                                    /\ p[id] => trackPaused[id]}
            /\ trackTime' = [id \in TrackIds |->
                               IF MediaAtEnd(id) THEN 0 ELSE trackTime[id]]
       ELSE UNCHANGED <<trackPaused, trackTime>>
  /\ isPlaying' = TRUE
  /\ rafPending' = TRUE
  /\ lastSeek' = -1
  /\ UNCHANGED <<volumes, mutedStems, soloStems, trackLoaded, trackDuration,
                 currentTime, duration, isLoaded>>

pause ==
  /\ trackPaused' = [id \in TrackIds |-> TRUE]
  /\ isPlaying' = FALSE
  /\ rafPending' = FALSE
  /\ lastSeek' = -1
  /\ UNCHANGED <<gainVars, trackTime, trackLoaded, trackDuration,
                 currentTime, duration, isLoaded>>

togglePlayPause == IF isPlaying THEN pause ELSE play

\* A mutation of seek: only the reference track is moved.
seekFirstOnly(t) ==
  /\ trackTime' = [trackTime EXCEPT ![FirstTrack] = SetMediaTime(FirstTrack, t)]
  /\ currentTime' = t
  /\ lastSeek' = t
  /\ UNCHANGED <<gainVars, trackPaused, trackLoaded, trackDuration,
                 isPlaying, duration, isLoaded, rafPending>>

seek(t) ==
  /\ trackTime' = [id \in TrackIds |-> SetMediaTime(id, t)]
  /\ currentTime' = t
  /\ lastSeek' = t
  /\ UNCHANGED <<gainVars, trackPaused, trackLoaded, trackDuration,
                 isPlaying, duration, isLoaded, rafPending>>

\* updateTime, run by the requested animation frame.
updateTime ==
  /\ rafPending
  /\ IF ~trackPaused[FirstTrack]
       THEN /\ currentTime' = trackTime[FirstTrack]
            /\ rafPending' = TRUE
       ELSE /\ rafPending' = FALSE
            /\ UNCHANGED currentTime
  /\ lastSeek' = -1
  /\ UNCHANGED <<gainVars, trackTime, trackPaused, trackLoaded, trackDuration,
                 isPlaying, duration, isLoaded>>

\* 'loadedmetadata' listener; the closure holds the duration of the render
\* in which the tracks were created (0 for the tracks of the first render).
loadedmetadata(id) ==
  /\ audioMode = "real"
  /\ HasMedia(id)
  /\ ~trackLoaded[id]
  /\ trackLoaded' = [trackLoaded EXCEPT ![id] = TRUE]
  /\ trackTime' = [trackTime EXCEPT ![id] = Min(trackTime[id], trackDuration[id])]
  /\ duration' = (IF trackDuration[id] > closureDuration
                    THEN trackDuration[id] ELSE duration)
  /\ isLoaded' = TRUE
  /\ lastSeek' = -1
  /\ UNCHANGED <<gainVars, trackPaused, trackDuration, isPlaying, currentTime,
                 rafPending>>

\* The media of a playing track advances by one tick.
mediaAdvance(id) ==
  /\ audioMode = "real"
  /\ trackLoaded[id] /\ ~trackPaused[id]
  /\ trackTime[id] < trackDuration[id]
  /\ trackTime' = [trackTime EXCEPT ![id] = trackTime[id] + 1]
  /\ lastSeek' = -1
  /\ UNCHANGED <<gainVars, trackPaused, trackLoaded, trackDuration, isPlaying,
                 currentTime, duration, isLoaded, rafPending>>

\* A playing track reaches its end: the element pauses itself and fires
\* 'ended'; the listener resets the shared state and every track's position.
ended(id) ==
  /\ audioMode = "real"
  /\ ~trackPaused[id] /\ MediaAtEnd(id)
  /\ trackPaused' = [trackPaused EXCEPT ![id] = TRUE]
  /\ isPlaying' = FALSE
  /\ currentTime' = 0
  /\ trackTime' = [t \in TrackIds |-> 0]
  /\ lastSeek' = -1
  /\ UNCHANGED <<gainVars, trackLoaded, trackDuration, duration, isLoaded,
                 rafPending>>

\* The 100 ms interval of the simulated transport.
simulatedTick ==
  /\ isPlaying /\ audioMode = "demo"
  /\ IF currentTime >= duration
       THEN isPlaying' = FALSE /\ currentTime' = 0
       ELSE isPlaying' = isPlaying /\ currentTime' = currentTime + 1
  /\ lastSeek' = -1
  /\ UNCHANGED <<gainVars, trackTime, trackPaused, trackLoaded, trackDuration,
                 duration, isLoaded, rafPending>>

\* ---- lifecycle
\* The orders in which the caller can pass the stems of the mix.
StemOrders == {ids \in [1..Len(stemIds) -> TrackIds] : RangeOf(ids) = TrackIds}

\* The simulated-clock effect holds an interval.
ClockRunning == mounted /\ isPlaying /\ audioMode = "demo"

\* The component unmounts: the cleanup of the init effect (every track
\* paused, its source cleared, the Map emptied, the animation frame
\* cancelled) and of the simulated-clock effect (clearInterval).
unmount ==
  /\ mounted
  /\ mounted' = FALSE
  /\ trackPaused' = [id \in TrackIds |-> TRUE]
  /\ trackDuration' = [id \in TrackIds |-> 0]
  /\ trackLoaded' = [id \in TrackIds |-> FALSE]
  /\ trackTime' = [id \in TrackIds |-> 0]
  /\ rafPending' = FALSE
  /\ lastSeek' = -1
  /\ UNCHANGED <<stemIds, audioMode, closureDuration, gainVars, isPlaying,
                 currentTime, duration, isLoaded>>

\* stemIds changes: the cleanup of the init effect, then the effect again.
\* The new elements start paused, unloaded, at 0 and at the default gain of
\* an Audio element; the state of the hook (isPlaying, currentTime, the
\* stored volumes and flags) is kept, and the volume effect does not re-run.
reinit(ids) ==
  /\ mounted
  /\ stemIds' = ids
  /\ trackPaused' = [id \in TrackIds |-> TRUE]
  /\ trackLoaded' = [id \in TrackIds |-> FALSE]
  /\ trackTime' = [id \in TrackIds |-> 0]
  /\ trackVolume' = [id \in TrackIds |-> 100]
  /\ rafPending' = FALSE
  /\ closureDuration' = duration
  /\ duration' = (IF audioMode = "demo" THEN DemoDuration ELSE duration)
  /\ isLoaded' = (IF audioMode = "demo" THEN TRUE ELSE isLoaded)
  /\ lastSeek' = -1
  /\ UNCHANGED <<audioMode, mounted, volumes, mutedStems, soloStems,
                 trackDuration, isPlaying, currentTime>>

\* ------------------------------------------------------------ orchestrator
\* Largest number of separate()/separateFromUrl() calls in one behaviour.
MaxJobs == 2
\* Largest number of entries of a backend output map.
MaxOut == 2

Jobs == 1..MaxJobs

\* error === null
Null == "<null>"

\* Keys and values of a backend output map; "" stands for any value the
\* normalisation does not accept (empty string, null, a non-string).
StemKeys == {"vocals", "drums", "xyz"}
StemValues == {"url1", "url2", ""}

\* An output map is the sequence of its entries, in Object.entries order.
OutputMapsOver(keys, values, n) ==
  {o \in UNION {[1..m -> keys \X values] : m \in 0..n} :
     \A i, k \in DOMAIN o : i # k => o[i][1] # o[k][1]}

OutputMaps == OutputMapsOver(StemKeys, StemValues, MaxOut)

\* The output maps used where several calls overlap.
FewOutputMaps == OutputMapsOver({"vocals"}, {"url1", ""}, 1)

\* Error texts a collaborator reports.
ErrTexts == {"boom", "Cancelled"}
FewErrTexts == {"boom"}

\* URLs the blob store hands out.
GoodUrl == "https://host/path/file.mp3"
StoreUrls == {GoodUrl, "https://host/path/undefined-file.mp3", "not a url",
              "ftp://host/path/file.mp3", ""}

VARIABLES
  isProcessing,        \* React state
  progress,            \* React state: [stage, progress, message]
  stems,               \* React state: sequence of [id, label, url]
  error,               \* React state: message or Null
  cancelledRef,        \* cancelledRef.current
  abortControllerRef,  \* job whose AbortController the ref holds, 0 for null
  pollTimeoutRef,      \* job whose timer the ref holds, 0 for null
  jobs,                \* the calls of separate/separateFromUrl: [pc, ...]
  cancelDuring         \* history: cancel() hit stage uploading/processing
                       \* and no call was started since

orchVars == <<isProcessing, progress, stems, error, cancelledRef,
              abortControllerRef, pollTimeoutRef, jobs, cancelDuring>>

\* STEM_LABELS[key] || key
STEM_LABELS ==
  [k \in {"vocals", "drums", "bass", "other", "instrumental", "guitar", "piano"} |->
     CASE k = "vocals" -> "Vocals"
       [] k = "drums" -> "Drums"
       [] k = "bass" -> "Bass"
       [] k = "other" -> "Other"
       [] k = "instrumental" -> "Instrumental"
       [] k = "guitar" -> "Guitar"
       [] k = "piano" -> "Piano"]

StemLabel(key) == IF key \in DOMAIN STEM_LABELS THEN STEM_LABELS[key] ELSE key

\* if (url && typeof url === 'string')
UsableUrl(url) == url # ""

\* A mutation of the normalisation loop: the label is always the raw key.
ExtractStemsRawLabel(output) ==
  LET keep == SelectSeq(output, LAMBDA e : UsableUrl(e[2]))
  IN [i \in DOMAIN keep |->
        [id |-> keep[i][1], label |-> keep[i][1], url |-> keep[i][2]]]

\* The loop over Object.entries(output) pushing {id, label, url}.
ExtractStems(output) ==
  LET keep == SelectSeq(output, LAMBDA e : UsableUrl(e[2]))
  IN [i \in DOMAIN keep |->
        [id |-> keep[i][1], label |-> StemLabel(keep[i][1]), url |-> keep[i][2]]]

\* isValidUrl: non-empty, no "undefined" inside, accepted by new URL().
HasUndefinedToken(u) == u = "https://host/path/undefined-file.mp3"
UrlParses(u) == u \in {GoodUrl, "https://host/path/undefined-file.mp3",
                       "ftp://host/path/file.mp3"}

\* A mutation of isValidUrl: the test for the placeholder token is left out.
isValidUrlNoToken(u) == u # "" /\ UrlParses(u)

isValidUrl(u) == u # "" /\ ~HasUndefinedToken(u) /\ UrlParses(u)

\* getErrorMessage(errorType, originalError); errorType "" is undefined.
getErrorMessage(errorType, originalError) ==
  CASE errorType = "MISSING_BACKEND_CONFIG" ->
         "A backend szerver nincs konfiguralva."
    [] errorType = "INVALID_BACKEND_URL" ->
         "A backend szerver URL-je ervenytelen."
    [] errorType = "BACKEND_CONNECTION_FAILED" ->
         "A backend szerver nem elerheto."
    [] errorType = "AUDIO_DOWNLOAD_FAILED" ->
         "Az audio fajl letoltese sikertelen."
    [] errorType = "AUDIO_DOWNLOAD_HTTP_ERROR" ->
         "Az audio fajl mar nem elerheto vagy nem ervenyes."
    [] errorType = "INVALID_AUDIO_URL" ->
         "Az audio URL ervenytelen."
    [] errorType = "PROCESSING_FAILED" ->
         "Az audio feldolgozasa sikertelen. Kerjuk, probalja ujra."
    [] errorType = "UNEXPECTED_ERROR" ->
         "Varatlan hiba tortent. Kerjuk, probalja ujra kesobb."
    [] OTHER -> IF originalError # "" THEN originalError
                ELSE "Feldolgozasi hiba tortent."

Progress(stage, pct, message) ==
  [stage |-> stage, progress |-> pct, message |-> message]

\* selected: the requested stems of the call; cancelled: history, cancel()
\* was called while the call was outstanding.
NewJob == [pc |-> "new", selected |-> <<>>, cancelled |-> FALSE]

\* A settled call keeps nothing but its outcome.
Settled(outcome) == [pc |-> outcome, selected |-> <<>>, cancelled |-> FALSE]

\* A call is outstanding while one of its requests or timers is pending.
Outstanding(j) == jobs[j].pc \notin {"new", "resolved", "rejected"}

\* Calls are numbered in the order they are made.
NextJob(j) == jobs[j].pc = "new" /\ \A k \in Jobs : k < j => jobs[k].pc # "new"

InitOrch ==
  /\ isProcessing = FALSE
  /\ progress = Progress("idle", 0, "Ready")
  /\ stems = <<>>
  /\ error = Null
  /\ cancelledRef = FALSE
  /\ abortControllerRef = 0
  /\ pollTimeoutRef = 0
  /\ jobs = [j \in Jobs |-> NewJob]
  /\ cancelDuring = FALSE

\* The first statements of separate and separateFromUrl.
BeginCall ==
  /\ isProcessing' = TRUE
  /\ error' = Null
  /\ stems' = <<>>
  /\ cancelledRef' = FALSE
  /\ cancelDuring' = FALSE

\* A mutation of the catch: a failure publishes stage idle.
RejectToIdle(j, message) ==
  /\ IF message # "Cancelled"
       THEN /\ error' = message
            /\ progress' = Progress("idle", 0, message)
       ELSE UNCHANGED <<error, progress>>
  /\ isProcessing' = FALSE
  /\ jobs' = [jobs EXCEPT ![j] = Settled("rejected")]
  /\ UNCHANGED <<stems, cancelledRef, cancelDuring>>

\* catch and finally of separate/separateFromUrl for a thrown message.
Reject(j, message) ==
  /\ IF message # "Cancelled"
       THEN /\ error' = message
            /\ progress' = Progress("error", 0, message)
       ELSE UNCHANGED <<error, progress>>
  /\ isProcessing' = FALSE
  /\ jobs' = [jobs EXCEPT ![j] = Settled("rejected")]
  /\ UNCHANGED <<stems, cancelledRef, cancelDuring>>

\* ---- synchronous-invoke orchestrator (useStemSeparation.ts)
\* processSeparation up to the await of functions.invoke.
SyncProcessStart(j) ==
  /\ progress' = Progress("processing", 30, "Stem szetvalasztas inditasa...")
  /\ abortControllerRef' = j
  /\ jobs' = [jobs EXCEPT ![j].pc = "invoke"]

\* separate(file): up to the await of storage.upload.
SyncSeparate(j) ==
  /\ NextJob(j)
  /\ BeginCall
  /\ progress' = Progress("uploading", 10, "Feltoltes folyamatban...")
  /\ jobs' = [jobs EXCEPT ![j].pc = "upload"]
  /\ UNCHANGED <<abortControllerRef, pollTimeoutRef>>

\* separateFromUrl(url): up to the await of functions.invoke.
SyncSeparateFromUrl(j) ==
  /\ NextJob(j)
  /\ BeginCall
  /\ SyncProcessStart(j)
  /\ UNCHANGED pollTimeoutRef

\* storage.upload returned; err is "" on success.
SyncUploadReturn(j, err) ==
  /\ jobs[j].pc = "upload"
  /\ IF err # ""
       THEN Reject(j, "Feltoltes sikertelen: " \o err)
       ELSE /\ jobs' = [jobs EXCEPT ![j].pc = "signedUrl"]
            /\ UNCHANGED <<isProcessing, progress, stems, error, cancelledRef,
                           cancelDuring>>
  /\ UNCHANGED <<abortControllerRef, pollTimeoutRef>>

\* storage.createSignedUrl returned; err is "" on success.
SyncSignedUrlReturn(j, err, url) ==
  /\ jobs[j].pc = "signedUrl"
  /\ IF err # ""
       THEN /\ Reject(j, "Signed URL letrehozasa sikertelen: " \o err)
            /\ UNCHANGED abortControllerRef
       ELSE IF ~isValidUrl(url)
         THEN /\ Reject(j, "Tarolasi URL ervenytelen: " \o url)
              /\ UNCHANGED abortControllerRef
         ELSE /\ SyncProcessStart(j)
              /\ UNCHANGED <<isProcessing, stems, error, cancelledRef, cancelDuring>>
  /\ UNCHANGED pollTimeoutRef

\* The answers of functions.invoke('stem-separation').
SyncResponses(texts, maps) ==
  [type : {"invokeError"}, text : texts]
    \cup [type : {"dataError"}, text : texts, errorType : {"", "PROCESSING_FAILED"}]
    \cup [type : {"status"}, status : {"failed"}]
    \cup [type : {"status"}, status : {"succeeded"}, hasOutput : {TRUE},
          output : maps]
    \cup [type : {"status"}, status : {"succeeded"}, hasOutput : {FALSE},
          output : {<<>>}]

\* A mutation of processSeparation: a succeeded answer is trusted even when
\* no stem was extracted.
SyncFailureTrustsEmpty(r) ==
  CASE cancelledRef -> "Cancelled"
    [] r.type = "invokeError" -> "Szetvalasztas sikertelen: " \o r.text
    [] r.type = "dataError" -> getErrorMessage(r.errorType, r.text)
    [] r.status # "succeeded" -> "Ismeretlen hiba tortent a feldolgozas soran"
    [] ~r.hasOutput -> "Nem sikerult stem-eket kinyerni"
    [] OTHER -> ""

\* The message processSeparation throws for an answer, "" when it returns.
SyncFailure(r) ==
  CASE cancelledRef -> "Cancelled"
    [] r.type = "invokeError" -> "Szetvalasztas sikertelen: " \o r.text
    [] r.type = "dataError" -> getErrorMessage(r.errorType, r.text)
    [] r.status # "succeeded" -> "Ismeretlen hiba tortent a feldolgozas soran"
    [] ~r.hasOutput -> "Nem sikerult stem-eket kinyerni"
    [] ExtractStems(r.output) = <<>> ->
         "Nem sikerult stem-eket kinyerni a feldolgozas eredmenyebol"
    [] OTHER -> ""

\* functions.invoke returned: the rest of processSeparation and of the caller.
SyncInvokeReturn(j, r) ==
  /\ jobs[j].pc = "invoke"
  /\ abortControllerRef' = 0
  /\ IF SyncFailure(r) # ""
       THEN Reject(j, SyncFailure(r))
       ELSE /\ stems' = ExtractStems(r.output)
            /\ progress' = Progress("complete", 100, "Szetvalasztas kesz!")
            /\ isProcessing' = FALSE
            /\ jobs' = [jobs EXCEPT ![j] = Settled("resolved")]
            /\ UNCHANGED <<error, cancelledRef, cancelDuring>>
  /\ UNCHANGED pollTimeoutRef

\* A mutation of the progress interval: the simulated progress is capped at
\* 100 instead of 90.
SyncProgressTickToFull(j) ==
  /\ jobs[j].pc = "invoke"
  /\ progress' = IF progress.progress < 100
                   THEN [progress EXCEPT
                           !.progress = Min(progress.progress + 5, 100),
                           !.message = "Szetvalasztas folyamatban..."]
                   ELSE progress
  /\ UNCHANGED <<isProcessing, stems, error, cancelledRef, abortControllerRef,
                 pollTimeoutRef, jobs, cancelDuring>>

\* The 5 s progressInterval of a call whose invoke is pending.
SyncProgressTick(j) ==
  /\ jobs[j].pc = "invoke"
  /\ progress' = IF progress.progress < 90
                   THEN [progress EXCEPT
                           !.progress = Min(progress.progress + 5, 90),
                           !.message = "Szetvalasztas folyamatban..."]
                   ELSE progress
  /\ UNCHANGED <<isProcessing, stems, error, cancelledRef, abortControllerRef,
                 pollTimeoutRef, jobs, cancelDuring>>

\* cancel(); abort() has no listener, the signal is passed to no request.
SyncCancel ==
  /\ cancelledRef' = TRUE
  /\ isProcessing' = FALSE
  /\ progress' = Progress("idle", 0, "Megszakitva")
  /\ cancelDuring' = (progress.stage \in {"uploading", "processing"})
  /\ jobs' = [j \in Jobs |->
                IF Outstanding(j) THEN [jobs[j] EXCEPT !.cancelled = TRUE] ELSE jobs[j]]
  /\ UNCHANGED <<stems, error, abortControllerRef, pollTimeoutRef>>

\* ---- polling orchestrator (part_004, lines 1-290)
\* Requested stem subsets passed to separateFromUrl; <<>> is none.
SelectedStems == {<<>>, <<"vocals">>, <<"drums", "vocals">>}

\* STEM_LABELS of the polling variant: no entry for instrumental.
POLL_STEM_LABELS ==
  [k \in {"vocals", "drums", "bass", "other", "guitar", "piano"} |-> STEM_LABELS[k]]

PollStemLabel(key) ==
  IF key \in DOMAIN POLL_STEM_LABELS THEN POLL_STEM_LABELS[key] ELSE key

\* The loop over Object.entries(output) of poll().
PollExtractStems(output) ==
  LET keep == SelectSeq(output, LAMBDA e : UsableUrl(e[2]))
  IN [i \in DOMAIN keep |->
        [id |-> keep[i][1], label |-> PollStemLabel(keep[i][1]), url |-> keep[i][2]]]

\* startSeparation up to the await of functions.invoke.
PollStartSeparation(j, selected) ==
  /\ progress' = Progress("processing", 20, "Starting stem separation...")
  /\ jobs' = [jobs EXCEPT ![j].pc = "submit", ![j].selected = selected]

\* separate(file): up to the await of storage.upload.
PollSeparate(j) ==
  /\ NextJob(j)
  /\ BeginCall
  /\ progress' = Progress("uploading", 10, "Uploading audio file...")
  /\ jobs' = [jobs EXCEPT ![j].pc = "upload"]
  /\ UNCHANGED <<abortControllerRef, pollTimeoutRef>>

\* separateFromUrl(url, selectedStems): up to the await of functions.invoke.
PollSeparateFromUrl(j, selected) ==
  /\ NextJob(j)
  /\ BeginCall
  /\ PollStartSeparation(j, selected)
  /\ UNCHANGED <<abortControllerRef, pollTimeoutRef>>

\* storage.upload returned; the public URL is taken as it comes.
PollUploadReturn(j, err) ==
  /\ jobs[j].pc = "upload"
  /\ IF err # ""
       THEN Reject(j, "Upload failed: " \o err)
       ELSE /\ PollStartSeparation(j, <<>>)
            /\ UNCHANGED <<isProcessing, stems, error, cancelledRef, cancelDuring>>
  /\ UNCHANGED <<abortControllerRef, pollTimeoutRef>>

\* poll(): the cancellation check, then the status request.
PollIssue(j) ==
  IF cancelledRef
    THEN Reject(j, "Cancelled")
    ELSE /\ jobs' = [jobs EXCEPT ![j].pc = "status"]
         /\ UNCHANGED <<isProcessing, progress, stems, error, cancelledRef,
                        cancelDuring>>

\* The answers to the submit request.
SubmitResponses(texts) ==
  [type : {"invokeError", "dataError"}, text : texts] \cup [type : {"id"}]

\* The submit request returned: rest of startSeparation, first poll().
PollSubmitReturn(j, r) ==
  /\ jobs[j].pc = "submit"
  /\ CASE r.type = "invokeError" ->
            Reject(j, "Failed to start separation: " \o r.text)
       [] r.type = "dataError" -> Reject(j, r.text)
       [] OTHER -> PollIssue(j)
  /\ UNCHANGED <<abortControllerRef, pollTimeoutRef>>

\* The answers to a status request.
StatusResponses(texts, maps) ==
  [type : {"invokeError"}, text : texts]
    \cup [type : {"status"}, status : {"starting", "processing", "queued"}]
    \cup [type : {"status"}, status : {"failed", "canceled"}, text : texts \cup {""}]
    \cup [type : {"status"}, status : {"succeeded"}, hasOutput : {TRUE},
          output : maps]
    \cup [type : {"status"}, status : {"succeeded"}, hasOutput : {FALSE},
          output : {<<>>}]

\* The progress published for a non-terminal status.
PollProgress(status) ==
  CASE status = "starting" -> Progress("processing", 25, "Starting AI model...")
    [] status = "processing" -> Progress("processing", 50, "Separating stems...")
    [] OTHER -> Progress("processing", 30, "Processing...")

\* A mutation of the filter: a subset of one stem is taken as no subset.
FilterStemsSeveral(results, selected) ==
  IF Len(selected) > 1
    THEN SelectSeq(results, LAMBDA r : r.id \in RangeOf(selected))
    ELSE results

\* results.filter(r => selectedStems.includes(r.id)) when a subset was given;
\* separate() publishes the results as they are.
FilterStems(results, selected) ==
  IF Len(selected) > 0
    THEN SelectSeq(results, LAMBDA r : r.id \in RangeOf(selected))
    ELSE results

\* A status request returned: the rest of poll() and, on a terminal status,
\* of the caller.
PollStatusReturn(j, r) ==
  /\ jobs[j].pc = "status"
  /\ CASE r.type = "invokeError" ->
            /\ Reject(j, "Failed to check status: " \o r.text)
            /\ UNCHANGED pollTimeoutRef
       [] r.type = "status" /\ r.status = "succeeded" ->
            /\ IF ~r.hasOutput
                 THEN Reject(j, "Cannot convert undefined or null to object")
                 ELSE /\ stems' = FilterStems(PollExtractStems(r.output),
                                              jobs[j].selected)
                      /\ progress' = Progress("complete", 100, "Separation complete!")
                      /\ isProcessing' = FALSE
                      /\ jobs' = [jobs EXCEPT ![j].pc = "resolved",
                                              ![j].cancelled = FALSE]
                      /\ UNCHANGED <<error, cancelledRef, cancelDuring>>
            /\ UNCHANGED pollTimeoutRef
       [] r.type = "status" /\ r.status \in {"failed", "canceled"} ->
            /\ Reject(j, IF r.text # "" THEN r.text ELSE "Separation failed")
            /\ UNCHANGED pollTimeoutRef
       [] OTHER ->
            /\ progress' = PollProgress(r.status)
            /\ pollTimeoutRef' = j
            /\ jobs' = [jobs EXCEPT ![j].pc = "wait"]
            /\ UNCHANGED <<isProcessing, stems, error, cancelledRef, cancelDuring>>
  /\ UNCHANGED abortControllerRef

\* The POLL_INTERVAL timer fires: the next poll().
PollTimerFires(j) ==
  /\ jobs[j].pc = "wait"
  /\ PollIssue(j)
  /\ UNCHANGED <<abortControllerRef, pollTimeoutRef>>

\* cancel(): a cleared timer never resolves the promise its call awaits.
PollCancel ==
  /\ cancelledRef' = TRUE
  /\ isProcessing' = FALSE
  /\ progress' = Progress("idle", 0, "Cancelled")
  /\ cancelDuring' = (progress.stage \in {"uploading", "processing"})
  /\ jobs' = [j \in Jobs |->
                IF ~Outstanding(j) THEN jobs[j]
                ELSE [jobs[j] EXCEPT
                        !.cancelled = TRUE,
                        !.pc = IF pollTimeoutRef = j /\ jobs[j].pc = "wait"
                                 THEN "hung" ELSE jobs[j].pc]]
  /\ UNCHANGED <<stems, error, abortControllerRef, pollTimeoutRef>>

\* ---- project list (useLocalProjects.ts)
\* Stem lists and stem selections a project is updated with.
StemLists == {<<>>, <<"vocals">>, <<"vocals", "drums">>}
Selections == {<<>>, <<"vocals">>}
Statuses == {"uploaded", "configuring", "processing", "completed", "error"}

VARIABLES
  localProject,   \* the project as held in the projects state of the hook
  remoteProject,  \* its row in the projects table: status, separation_config
  request         \* the update or delete request the hook is awaiting

projVars == <<localProject, remoteProject, request>>

\* A project of the list or a row of the table, reduced to its status and
\* the two fields of separation_config. An undefined stems or selected_stems
\* of the local project reads as the empty list.
ProjectOf(st, list, sel) ==
  [exists |-> TRUE, status |-> st, stems |-> list, selected |-> sel]

\* The project is not in the list / the row is deleted.
NoProject == [exists |-> FALSE, status |-> "", stems |-> <<>>, selected |-> <<>>]

\* An updates argument with every field undefined.
NoUpdate ==
  [status |-> "", hasStems |-> FALSE, stems |-> <<>>,
   hasSelected |-> FALSE, selected |-> <<>>]

\* The hook awaits no request.
NoRequest == [op |-> "none", u |-> NoUpdate]

\* The list as loadProjects maps it from the table.
InitProjects ==
  /\ \E st \in Statuses, x \in StemLists, sel \in Selections :
       remoteProject = ProjectOf(st, x, sel)
  /\ localProject = remoteProject
  /\ request = NoRequest

\* A freshly added project, for the behaviours that do not touch the list.
OneProject ==
  /\ remoteProject = ProjectOf("uploaded", <<>>, <<>>)
  /\ localProject = remoteProject
  /\ request = NoRequest

\* The Partial<LocalProject> arguments of updateProject; status "" and the
\* has-flags FALSE stand for an undefined field.
Updates ==
  [status : {""} \cup Statuses,
   hasStems : {TRUE}, stems : StemLists,
   hasSelected : {FALSE}, selected : {<<>>}]
    \cup [status : {""} \cup Statuses,
          hasStems : {FALSE}, stems : {<<>>},
          hasSelected : {TRUE}, selected : Selections]
    \cup [status : {""} \cup Statuses,
          hasStems : {TRUE}, stems : StemLists,
          hasSelected : {TRUE}, selected : Selections]
    \cup [status : Statuses,
          hasStems : {FALSE}, stems : {<<>>},
          hasSelected : {FALSE}, selected : {<<>>}]

\* updateData as updateProject builds it, written to the row.
UpdateRow(row, u) ==
  [row EXCEPT
     !.status = IF u.status # "" THEN u.status ELSE @,
     !.stems = IF u.hasStems \/ u.hasSelected
                 THEN (IF u.hasStems THEN u.stems ELSE <<>>) ELSE @,
     !.selected = IF u.hasStems \/ u.hasSelected
                    THEN (IF u.hasSelected THEN u.selected ELSE <<>>) ELSE @]

\* { ...p, ...updates } of the setProjects after a successful update.
MergeLocal(p, u) ==
  [p EXCEPT
     !.status = IF u.status # "" THEN u.status ELSE @,
     !.stems = IF u.hasStems THEN u.stems ELSE @,
     !.selected = IF u.hasSelected THEN u.selected ELSE @]

\* updateProject(id, u) up to its await: updateData is built and sent.
\* One request is awaited at a time.
updateProject(u) ==
  /\ localProject.exists
  /\ request = NoRequest
  /\ request' = [op |-> "update", u |-> u]
  /\ UNCHANGED <<localProject, remoteProject>>

\* The update is answered: with an error the call returns, otherwise the
\* row is written and setProjects merges the updates into the project.
updateProjectReturn(ok) ==
  /\ request.op = "update"
  /\ request' = NoRequest
  /\ IF ok
       THEN /\ remoteProject' = UpdateRow(remoteProject, request.u)
            /\ localProject' = MergeLocal(localProject, request.u)
       ELSE UNCHANGED <<localProject, remoteProject>>

\* deleteProject(id) up to its await.
deleteProject ==
  /\ localProject.exists
  /\ request = NoRequest
  /\ request' = [op |-> "delete", u |-> NoUpdate]
  /\ UNCHANGED <<localProject, remoteProject>>

\* The delete is answered: with an error the call returns, otherwise the
\* row is gone and setProjects filters the project out.
deleteProjectReturn(ok) ==
  /\ request.op = "delete"
  /\ request' = NoRequest
  /\ IF ok
       THEN /\ remoteProject' = NoProject
            /\ localProject' = NoProject
       ELSE UNCHANGED <<localProject, remoteProject>>

vars == <<mixVars, orchVars, projVars>>

\* ---- the gain controls of a four-stem mix
InitGain == InitMix(FourStems, {MaxTime}) /\ InitOrch /\ OneProject

NextGain ==
  \/ \E id \in TrackIds, v \in Volumes :
       setVolume(id, v) /\ UNCHANGED <<projVars, stemIds, audioMode, lifeVars, transportVars, orchVars>>
  \/ \E id \in TrackIds :
       toggleMute(id) /\ UNCHANGED <<projVars, stemIds, audioMode, lifeVars, transportVars, orchVars>>
  \/ \E id \in TrackIds :
       toggleSolo(id) /\ UNCHANGED <<projVars, stemIds, audioMode, lifeVars, transportVars, orchVars>>

SpecGain == InitGain /\ [][NextGain]_vars

\* ---- the transport of a two-stem mix
InitTransport == InitMix(TwoStems, 1..MaxTime) /\ InitOrch /\ OneProject

NextTransport ==
  \/ play /\ UNCHANGED <<projVars, stemIds, audioMode, lifeVars, gainVars, orchVars>>
  \/ pause /\ UNCHANGED <<projVars, stemIds, audioMode, lifeVars, gainVars, orchVars>>
  \/ togglePlayPause /\ UNCHANGED <<projVars, stemIds, audioMode, lifeVars, gainVars, orchVars>>
  \/ \E t \in Times : seek(t) /\ UNCHANGED <<projVars, stemIds, audioMode, lifeVars, gainVars, orchVars>>
  \/ updateTime /\ UNCHANGED <<projVars, stemIds, audioMode, lifeVars, gainVars, orchVars>>
  \/ \E id \in TrackIds : loadedmetadata(id) /\ UNCHANGED <<projVars, stemIds, audioMode, lifeVars, gainVars, orchVars>>
  \/ \E id \in TrackIds : mediaAdvance(id) /\ UNCHANGED <<projVars, stemIds, audioMode, lifeVars, gainVars, orchVars>>
  \/ \E id \in TrackIds : ended(id) /\ UNCHANGED <<projVars, stemIds, audioMode, lifeVars, gainVars, orchVars>>
  \/ simulatedTick /\ UNCHANGED <<projVars, stemIds, audioMode, lifeVars, gainVars, orchVars>>

SpecTransport == InitTransport /\ [][NextTransport]_vars

\* ---- the gain controls of a two-stem mix that is loading and playing
NextControls ==
  \/ \E id \in TrackIds, v \in Volumes :
       setVolume(id, v) /\ UNCHANGED <<projVars, stemIds, audioMode, lifeVars, transportVars, orchVars>>
  \/ \E id \in TrackIds :
       toggleMute(id) /\ UNCHANGED <<projVars, stemIds, audioMode, lifeVars, transportVars, orchVars>>
  \/ \E id \in TrackIds :
       toggleSolo(id) /\ UNCHANGED <<projVars, stemIds, audioMode, lifeVars, transportVars, orchVars>>
  \/ play /\ UNCHANGED <<projVars, stemIds, audioMode, lifeVars, gainVars, orchVars>>
  \/ pause /\ UNCHANGED <<projVars, stemIds, audioMode, lifeVars, gainVars, orchVars>>
  \/ updateTime /\ UNCHANGED <<projVars, stemIds, audioMode, lifeVars, gainVars, orchVars>>
  \/ \E id \in TrackIds : loadedmetadata(id) /\ UNCHANGED <<projVars, stemIds, audioMode, lifeVars, gainVars, orchVars>>
  \/ \E id \in TrackIds : mediaAdvance(id) /\ UNCHANGED <<projVars, stemIds, audioMode, lifeVars, gainVars, orchVars>>
  \/ simulatedTick /\ UNCHANGED <<projVars, stemIds, audioMode, lifeVars, gainVars, orchVars>>

InitControls == InitMix(TwoStems, {MaxTime}) /\ InitOrch /\ OneProject

SpecControls == InitControls /\ [][NextControls]_vars

\* ---- the lifecycle of a two-stem mix
NextLifecycle ==
  \/ mounted /\ NextTransport
  \/ unmount /\ UNCHANGED <<orchVars, projVars>>
  \/ \E ids \in StemOrders : reinit(ids) /\ UNCHANGED <<orchVars, projVars>>

SpecLifecycle == InitTransport /\ [][NextLifecycle]_vars

\* ---- the transport of a two-stem mix some of whose sources fail
InitFailing == InitMix(TwoStems, 0..MaxTime) /\ InitOrch /\ OneProject

SpecFailing == InitFailing /\ [][NextTransport]_vars

\* ---- the synchronous-invoke orchestrator
InitSync ==
  InitOrch /\ InitMix(TwoStems, {MaxTime}) /\ audioMode = "demo" /\ OneProject

SyncStep(calls, texts, maps) ==
  \/ \E j \in calls : SyncSeparate(j) /\ UNCHANGED <<mixVars, projVars>>
  \/ \E j \in calls : SyncSeparateFromUrl(j) /\ UNCHANGED <<mixVars, projVars>>
  \/ \E j \in calls, err \in texts \cup {""} :
       SyncUploadReturn(j, err) /\ UNCHANGED <<mixVars, projVars>>
  \/ \E j \in calls, err \in texts \cup {""}, url \in StoreUrls :
       SyncSignedUrlReturn(j, err, url) /\ UNCHANGED <<mixVars, projVars>>
  \/ \E j \in calls, r \in SyncResponses(texts, maps) :
       SyncInvokeReturn(j, r) /\ UNCHANGED <<mixVars, projVars>>
  \/ \E j \in calls : SyncProgressTick(j) /\ UNCHANGED <<mixVars, projVars>>
  \/ SyncCancel /\ UNCHANGED <<mixVars, projVars>>

\* Up to MaxJobs overlapping calls.
NextSync == SyncStep(Jobs, FewErrTexts, FewOutputMaps)

SpecSync == InitSync /\ [][NextSync]_vars

\* One call, every answer of the collaborators.
NextSyncCall == SyncStep({1}, ErrTexts, OutputMaps)

SpecSyncCall == InitSync /\ [][NextSyncCall]_vars

\* ---- the polling orchestrator
PollStep(calls, texts, maps) ==
  \/ \E j \in calls : PollSeparate(j) /\ UNCHANGED <<mixVars, projVars>>
  \/ \E j \in calls, selected \in SelectedStems :
       PollSeparateFromUrl(j, selected) /\ UNCHANGED <<mixVars, projVars>>
  \/ \E j \in calls, err \in texts \cup {""} :
       PollUploadReturn(j, err) /\ UNCHANGED <<mixVars, projVars>>
  \/ \E j \in calls, r \in SubmitResponses(texts) :
       PollSubmitReturn(j, r) /\ UNCHANGED <<mixVars, projVars>>
  \/ \E j \in calls, r \in StatusResponses(texts, maps) :
       PollStatusReturn(j, r) /\ UNCHANGED <<mixVars, projVars>>
  \/ \E j \in calls : PollTimerFires(j) /\ UNCHANGED <<mixVars, projVars>>
  \/ PollCancel /\ UNCHANGED <<mixVars, projVars>>

\* Up to MaxJobs overlapping calls.
NextPoll == PollStep(Jobs, FewErrTexts, FewOutputMaps)

SpecPoll == InitSync /\ [][NextPoll]_vars

\* One call, every answer of the collaborators.
NextPollCall == PollStep({1}, ErrTexts, OutputMaps)

SpecPollCall == InitSync /\ [][NextPollCall]_vars

\* One call whose requests are always answered and whose timer, once set and
\* not cleared, always fires; when the user starts or cancels is left open.
PollCallAnswered ==
  /\ WF_vars(\E err \in ErrTexts \cup {""} :
               PollUploadReturn(1, err) /\ UNCHANGED <<mixVars, projVars>>)
  /\ WF_vars(\E r \in SubmitResponses(ErrTexts) :
               PollSubmitReturn(1, r) /\ UNCHANGED <<mixVars, projVars>>)
  /\ WF_vars(\E r \in StatusResponses(ErrTexts, OutputMaps) :
               PollStatusReturn(1, r) /\ UNCHANGED <<mixVars, projVars>>)
  /\ WF_vars(PollTimerFires(1) /\ UNCHANGED <<mixVars, projVars>>)

SpecPollCallFair == InitSync /\ [][NextPollCall]_vars /\ PollCallAnswered

\* ---- the project list
InitList ==
  InitOrch /\ InitMix(TwoStems, {MaxTime}) /\ audioMode = "demo" /\ InitProjects

NextList ==
  \/ \E u \in Updates : updateProject(u) /\ UNCHANGED <<mixVars, orchVars>>
  \/ \E ok \in BOOLEAN :
       updateProjectReturn(ok) /\ UNCHANGED <<mixVars, orchVars>>
  \/ deleteProject /\ UNCHANGED <<mixVars, orchVars>>
  \/ \E ok \in BOOLEAN :
       deleteProjectReturn(ok) /\ UNCHANGED <<mixVars, orchVars>>

SpecList == InitList /\ [][NextList]_vars

\* ------------------------------------------------------- mix engine claims
\* The resolution rule as the specification words it.
Audible(id) ==
  IF \E t \in TrackIds : soloStems[t] THEN soloStems[id] ELSE ~mutedStems[id]

\* C1: after any setVolume, toggleMute or toggleSolo, every track's gain is
\* volume/100 when the track is audible and 0 otherwise, where audible means
\* soloed if any track is soloed and not muted otherwise.
C1_GainRule ==
  \A id \in TrackIds :
    trackVolume[id] = (IF Audible(id) THEN volumes[id] ELSE 0)

\* A soloed and muted track at full volume plays, an unmuted one is silenced.
C1_Witness ==
  \E a, b \in TrackIds :
    /\ a # b
    /\ soloStems[a] /\ mutedStems[a] /\ volumes[a] = 100 /\ trackVolume[a] = 100
    /\ ~soloStems[b] /\ ~mutedStems[b] /\ volumes[b] = 0 /\ trackVolume[b] = 0

\* C2: with no track soloed, soloing one track silences every other track
\* whatever its muted flag; un-soloing that track gives every track its
\* mute-derived gain back (0 if muted, else volume/100).
C2_SoloOneOfFour ==
  [][\A s \in TrackIds :
       /\ (~HasSolo(soloStems) /\ soloStems' = [soloStems EXCEPT ![s] = TRUE])
            => /\ \A o \in TrackIds \ {s} : trackVolume'[o] = 0
               /\ trackVolume'[s] = volumes'[s]
       /\ (soloStems = [id \in TrackIds |-> id = s] /\ ~HasSolo(soloStems'))
            => \A id \in TrackIds :
                 trackVolume'[id] = (IF mutedStems'[id] THEN 0 ELSE volumes'[id])
    ]_vars

\* Exactly one of four tracks is soloed; of the silenced three one is muted
\* and one is not.
C2_Witness ==
  /\ Cardinality(TrackIds) = 4
  /\ \E s \in TrackIds :
       /\ soloStems = [id \in TrackIds |-> id = s]
       /\ trackVolume[s] > 0
       /\ \A o \in TrackIds \ {s} : trackVolume[o] = 0
       /\ \E m, u \in TrackIds \ {s} :
            mutedStems[m] /\ ~mutedStems[u] /\ volumes[u] > 0

C4_CompletionResetsAll ==
  [][ended(FirstTrack)
       => /\ ~isPlaying'
          /\ currentTime' = 0
          /\ \A id \in TrackIds : trackTime'[id] = 0 /\ trackPaused'[id]
    ]_vars

\* ------------------------------------------------------ orchestrator claims
\* The label table as the specification lists it.
KnownLabel(key) ==
  CASE key = "vocals" -> "Vocals"
    [] key = "drums" -> "Drums"
    [] key = "bass" -> "Bass"
    [] key = "other" -> "Other"
    [] key = "instrumental" -> "Instrumental"
    [] key = "guitar" -> "Guitar"
    [] key = "piano" -> "Piano"
    [] OTHER -> key

EntryAsStem(e) == [id |-> e[1], label |-> KnownLabel(e[1]), url |-> e[2]]

\* A succeeded answer carrying an output map, delivered to an uncancelled call.
SucceededWith(r) == r.type = "status" /\ r.status = "succeeded" /\ r.hasOutput

\* C5 as stated: a succeeded answer with an output map (one that yields a
\* result at all) ends the call in stage complete with resultStems equal to
\* all the map's entries, in their original order, each as
\* {id: key, label: known label or raw key, url: value}.
C5_AllEntriesPublished ==
  [][\A r \in SyncResponses(ErrTexts, OutputMaps) :
       (/\ SucceededWith(r)
        /\ \E i \in DOMAIN r.output : r.output[i][2] # ""
        /\ ~cancelledRef
        /\ SyncInvokeReturn(1, r))
         => /\ progress'.stage = "complete"
            /\ stems' = [i \in DOMAIN r.output |-> EntryAsStem(r.output[i])]
    ]_vars

\* C5 amended: a succeeded answer whose output map has at least one entry
\* with a non-empty string value ends the call in stage complete with
\* resultStems equal to those entries, in their original order, each as
\* {id: key, label: known label or raw key, url: value}; entries with any
\* other value are left out.
C5_UsableEntriesPublished ==
  [][\A r \in SyncResponses(ErrTexts, OutputMaps) :
       (/\ SucceededWith(r)
        /\ \E i \in DOMAIN r.output : r.output[i][2] # ""
        /\ ~cancelledRef
        /\ SyncInvokeReturn(1, r))
         => /\ progress'.stage = "complete"
            /\ progress'.progress = 100
            /\ LET usable == SelectSeq(r.output, LAMBDA e : e[2] # "")
               IN stems' = [i \in DOMAIN usable |-> EntryAsStem(usable[i])]
    ]_vars

\* The call of the specification's example has completed.
C5_Witness ==
  /\ progress.stage = "complete"
  /\ jobs[1].pc = "resolved"
  /\ stems = <<[id |-> "vocals", label |-> "Vocals", url |-> "url1"],
               [id |-> "drums", label |-> "Drums", url |-> "url2"]>>

\* C6: a succeeded answer whose output map is empty or holds no usable
\* string URL ends the call in stage error with errorMessage set, never in
\* complete, and resultStems stays empty.
C6_NoStemsIsError ==
  [][\A r \in SyncResponses(ErrTexts, OutputMaps) :
       (/\ SucceededWith(r)
        /\ \A i \in DOMAIN r.output : r.output[i][2] = ""
        /\ ~cancelledRef
        /\ SyncInvokeReturn(1, r))
         => /\ progress'.stage = "error"
            /\ error' # Null
            /\ stems' = <<>>
    ]_vars

\* A call has been rejected for having produced no stem.
C6_Witness ==
  /\ jobs[1].pc = "rejected"
  /\ progress.stage = "error"
  /\ error = "Nem sikerult stem-eket kinyerni a feldolgozas eredmenyebol"
  /\ stems = <<>>

\* C7: at every moment at most one call of separate/separateFromUrl is
\* outstanding (one upload, one submit/poll chain) per orchestrator.
C7_SingleFlight ==
  Cardinality({j \in Jobs : Outstanding(j)}) <= 1

\* C8: from a cancel() during uploading or processing until the next start,
\* stage stays idle, progress stays 0 and resultStems stays empty.
C8_CancelledCommitsNothing ==
  cancelDuring =>
    /\ progress.stage = "idle"
    /\ progress.progress = 0
    /\ stems = <<>>

\* C9: a call that was outstanding when cancel() was called issues no
\* further status request.
C9_NoStatusAfterCancel ==
  [][\A j \in Jobs :
       jobs[j].cancelled => ~(jobs[j].pc # "status" /\ jobs'[j].pc = "status")
    ]_vars

\* C10: from a cancel() during uploading or processing until the next
\* start, errorMessage stays unset and stage is never error.
C10_CancelIsNoError ==
  cancelDuring => (error = Null /\ progress.stage # "error")

\* C11: in the polling orchestrator, a polled status starting or processing
\* never lowers the published progress of the processing stage, and leaves
\* it below 100; 100 is published only once succeeded has been received.
C11_PollProgressMonotonic ==
  [][\A r \in StatusResponses(ErrTexts, OutputMaps) :
       (/\ progress.stage = "processing"
        /\ r.type = "status"
        /\ r.status \in {"starting", "processing"}
        /\ PollStatusReturn(1, r))
         => /\ progress'.progress >= progress.progress
            /\ progress'.progress < 100
    ]_vars

\* The fetch URL of the specification's example.
UndefinedUrl == "https://host/path/undefined-file.mp3"

\* C12: in the synchronous-invoke orchestrator, when the blob store returns
\* a fetch URL containing the token "undefined", separate() ends in stage
\* error with an invalid-location message, and the call is settled without
\* ever invoking the separation service.
C12_UndefinedUrlRejected ==
  [][/\ SyncSignedUrlReturn(1, "", UndefinedUrl)
          => /\ progress'.stage = "error"
             /\ error' = "Tarolasi URL ervenytelen: " \o UndefinedUrl
             /\ stems' = <<>>
             /\ jobs'[1].pc = "rejected"
     /\ jobs[1].pc = "rejected" => jobs'[1].pc = "rejected"
    ]_vars

\* separate() has failed on the URL with the placeholder token.
C12_Witness ==
  /\ jobs[1].pc = "rejected"
  /\ progress.stage = "error"
  /\ error = "Tarolasi URL ervenytelen: " \o UndefinedUrl
  /\ ~isProcessing

\* The scheme of a store URL is http or https.
HttpScheme(u) == u \in {GoodUrl, UndefinedUrl}

\* C13: the upload hands a URL on to the separation service only if the
\* store's URL is non-empty, URL-parseable, free of the token "undefined"
\* and of scheme http or https; a URL failing any one of the four checks
\* makes the upload fail and no invoke happens.
C13_FourUrlChecks ==
  [][\A u \in StoreUrls :
       SyncSignedUrlReturn(1, "", u)
         => IF u # "" /\ UrlParses(u) /\ ~HasUndefinedToken(u) /\ HttpScheme(u)
              THEN jobs'[1].pc = "invoke"
              ELSE jobs'[1].pc = "rejected" /\ progress'.stage = "error"
    ]_vars

\* The call is in the poll loop: a status request or the poll timer is pending.
Polling(j) == jobs[j].pc \in {"status", "wait"}

\* C14: in the polling orchestrator the poll loop is bounded: a call that
\* polls leaves the loop after finitely many polls, whatever the backend
\* answers (on answers that stay non-terminal, by a timeout error).
C14_PollingIsBounded ==
  Polling(1) ~> ~Polling(1)

\* C15: a call that ends by a failure while no cancel() was made since its
\* start (upload failure, invalid storage URL, unreachable backend, error
\* payload, failed or canceled status, zero stems) ends in stage error with
\* a non-empty errorMessage, whatever the error text of the backend.
C15_FailureIsPublished ==
  [][(/\ Outstanding(1)
      /\ ~cancelledRef
      /\ jobs'[1].pc = "rejected")
        => /\ progress'.stage = "error"
           /\ error' # Null
           /\ error' # ""
    ]_vars

\* C16: in every reachable state of the orchestrator, resultStems is
\* non-empty only when stage is complete.
C16_StemsOnlyWhenComplete ==
  stems # <<>> => progress.stage = "complete"

\* C17: in every reachable state of the orchestrator, errorMessage is set
\* only when stage is error.
C17_ErrorOnlyWhenError ==
  error # Null => progress.stage = "error"

\* The requested subset names the stem.
Requested(S, id) == \E i \in DOMAIN S : S[i] = id

\* C18: in the polling orchestrator, separateFromUrl(url, S) with a
\* non-empty subset S publishes exactly the normalized stems whose id is in
\* S, in their normalized order; with S empty or absent it publishes the
\* full normalized sequence.
C18_SubsetFilter ==
  [][\A r \in StatusResponses(ErrTexts, OutputMaps) :
       (SucceededWith(r) /\ PollStatusReturn(1, r))
         => LET S == jobs[1].selected
                normalized == PollExtractStems(r.output)
            IN /\ progress'.stage = "complete"
               /\ S = <<>> => stems' = normalized
               /\ S # <<>> =>
                    /\ \A i \in DOMAIN stems' : Requested(S, stems'[i].id)
                    /\ \A k \in DOMAIN normalized :
                         Requested(S, normalized[k].id)
                           => \E i \in DOMAIN stems' : stems'[i] = normalized[k]
                    /\ stems' = SelectSeq(normalized,
                                          LAMBDA s : Requested(S, s.id))
    ]_vars

\* A call asking for drums and vocals has published both, vocals first as
\* in the backend's map.
C18_Witness ==
  /\ jobs[1].pc = "resolved"
  /\ jobs[1].selected = <<"drums", "vocals">>
  /\ progress.stage = "complete"
  /\ stems = <<[id |-> "vocals", label |-> "Vocals", url |-> "url1"],
               [id |-> "drums", label |-> "Drums", url |-> "url2"]>>

\* C19: in the polling orchestrator no call reaches stage complete with
\* zero stems: a succeeded status whose output yields no stem, or whose
\* stems are all removed by the requested-stems filter, ends the call in
\* stage error.
C19_PollNeverCompleteEmpty ==
  [][\A r \in StatusResponses(ErrTexts, OutputMaps) :
       (SucceededWith(r) /\ PollStatusReturn(1, r))
         => /\ progress'.stage = "complete" => stems' # <<>>
            /\ FilterStems(PollExtractStems(r.output), jobs[1].selected) = <<>>
                 => progress'.stage = "error"
    ]_vars

\* C20: in the synchronous-invoke orchestrator the invoke starts at
\* progress 30; each tick of the progress interval of a pending invoke only
\* raises the progress, by one step and never above 90; progress 100 is
\* published only by a succeeded answer of the backend, and only together
\* with stage complete.
C20_SimulatedProgress ==
  [][/\ \A j \in Jobs :
          (jobs[j].pc # "invoke" /\ jobs'[j].pc = "invoke")
            => progress'.progress = 30 /\ progress'.stage = "processing"
     /\ \A j \in Jobs :
          SyncProgressTick(j)
            => /\ progress'.progress >= progress.progress
               /\ progress'.progress <= progress.progress + 5
               /\ progress'.progress > progress.progress
                    => progress'.progress <= 90
               /\ progress.progress < 90
                    => progress'.progress > progress.progress
               /\ progress'.stage = progress.stage
     /\ progress'.progress = 100 => progress'.stage = "complete"
     /\ (progress.progress # 100 /\ progress'.progress = 100)
          => \E j \in Jobs, r \in SyncResponses(ErrTexts, OutputMaps) :
               SucceededWith(r) /\ SyncInvokeReturn(j, r)
    ]_vars

\* The simulated progress of a pending invoke has reached its cap.
C20_Witness ==
  /\ \E j \in Jobs : jobs[j].pc = "invoke"
  /\ ~cancelledRef
  /\ progress.stage = "processing"
  /\ progress.progress = 90

\* The calls whose status request is in flight.
StatusOutstanding == {j \in Jobs : jobs[j].pc = "status"}

\* C21: in the polling orchestrator the status requests of an orchestrator
\* instance are strictly sequential: at most one is outstanding at any
\* moment, a request is issued only once the submit or the previous request
\* has returned and the poll interval has elapsed, and none is issued by a
\* call that has received succeeded, failed or canceled.
C21_SequentialPolls ==
  [][/\ Cardinality(StatusOutstanding') <= 1
     /\ \A j \in Jobs :
          (jobs[j].pc # "status" /\ jobs'[j].pc = "status")
            => jobs[j].pc \in {"submit", "wait"}
     /\ \A j \in Jobs :
          jobs[j].pc \in {"resolved", "rejected"} => jobs'[j].pc = jobs[j].pc
    ]_vars

\* The stage changes the specification allows within one job.
StagePath ==
  {<<"uploading", "processing">>, <<"uploading", "error">>,
   <<"processing", "complete">>, <<"processing", "error">>}

\* C22: for a single start() with no cancel(), the stages follow
\* idle -> uploading -> processing -> complete, with error reachable from
\* uploading or processing and separateFromUrl entering at processing: the
\* stage never moves backwards and complete or error, once reached, stays.
C22_StagePath ==
  [][~cancelledRef' =>
       /\ (jobs[1].pc = "new" /\ jobs'[1].pc # "new")
            => /\ progress.stage = "idle"
               /\ progress'.stage \in {"uploading", "processing"}
       /\ (jobs[1].pc # "new" /\ ~cancelledRef)
            => \/ progress'.stage = progress.stage
               \/ <<progress.stage, progress'.stage>> \in StagePath
    ]_vars

\* A call has run to stage complete without any cancel().
C22_Witness ==
  /\ jobs[1].pc = "resolved"
  /\ ~cancelledRef
  /\ progress.stage = "complete"
  /\ stems # <<>>

\* C23: whenever isPlaying is false the shared currentTime is frozen: it
\* changes only through seek() or the reset at completion; after pause()
\* or an end-of-media event of any track no animation-frame tick and no
\* simulated-clock tick changes it.
C23_FrozenWhilePaused ==
  [][(~isPlaying /\ currentTime' # currentTime)
       => \/ \E t \in Times : seek(t)
          \/ \E id \in TrackIds : ended(id)
    ]_vars

\* The track has media, has loaded it and is playing.
Healthy(id) == HasMedia(id) /\ trackLoaded[id] /\ ~trackPaused[id]

\* C24: in real-media mode, when the reference track has failed while
\* another track plays, the animation-frame tick takes the shared
\* currentTime from a healthy track and keeps running, so currentTime
\* advances with that track instead of staying stuck.
C24_FallbackClock ==
  [][(/\ audioMode = "real"
      /\ ~HasMedia(FirstTrack)
      /\ \E o \in TrackIds : Healthy(o)
      /\ updateTime)
        => /\ \E o \in TrackIds : Healthy(o) /\ currentTime' = trackTime[o]
           /\ rafPending'
    ]_vars

\* The longest duration among the tracks loaded so far, 0 when there is none.
LoadedMax ==
  LET ds == {trackDuration[id] : id \in {t \in TrackIds : trackLoaded[t]}} \cup {0}
  IN CHOOSE m \in ds : \A d \in ds : d <= m

\* C25: after the loadedmetadata events of any subset of tracks, in any
\* order, the shared duration of a real-media mix is the maximum of the
\* durations of the tracks loaded so far.
C25_DurationIsMax ==
  audioMode = "real" => duration = LoadedMax

C27_TeardownReleases ==
  [][/\ (unmount \/ \E ids \in StemOrders : reinit(ids))
          => /\ \A id \in TrackIds : trackPaused'[id]
             /\ ~rafPending'
             /\ ~ClockRunning'
     /\ unmount => \A id \in TrackIds : ~HasMedia(id)' /\ ~trackLoaded'[id]
     /\ ~mounted => UNCHANGED vars
    ]_vars

\* A request of the call is in flight, or its poll timer is armed.
Pending(j) == jobs[j].pc \in {"upload", "signedUrl", "invoke", "submit", "status", "wait"}

\* C28: every call of separate/separateFromUrl settles once its requests
\* have returned, also when cancel() is called at any point, including the
\* wait between two polls: a call that has not settled always has a request
\* or a timer pending that will resume it.
C28_CallCanSettle ==
  \A j \in Jobs : Outstanding(j) => Pending(j)

\* C29: in every reachable state of the orchestrator, isProcessing is true
\* exactly when stage is uploading or processing; in particular it is
\* never false while a request of an uncancelled call is outstanding.
C29_ProcessingMatchesStage ==
  /\ isProcessing <=> progress.stage \in {"uploading", "processing"}
  /\ \A j \in Jobs : (Outstanding(j) /\ ~jobs[j].cancelled) => isProcessing

\* ------------------------------------------------------ project list claims

\* C30: after any sequence of successful updateProject calls on a project,
\* once no request is awaited, the stems and selected_stems of the locally
\* cached project equal those held in the separation_config of its remote
\* record (an update supplying only one of the two fields does not erase
\* the other remotely while the local copy keeps it); and a failed update
\* or delete leaves the local list unchanged.
C30_LocalMatchesRemote ==
  /\ (request = NoRequest /\ localProject.exists) =>
       /\ remoteProject.exists
       /\ localProject.stems = remoteProject.stems
       /\ localProject.selected = remoteProject.selected
  /\ localProject.exists = remoteProject.exists
  /\ localProject.status = remoteProject.status

====
